---- MODULE Spec2Model ----
(***************************************************************************)
(* apply_filtered_suggestions.py: one run downloads a to-do document,      *)
(* filters a batch of suggestions, inserts a note/marker pair under the    *)
(* best matching line of each accepted suggestion, puts a last_review      *)
(* header on line 0, optionally uploads the result and writes the decision *)
(* records.  Runs follow each other on the same remote document.           *)
(***************************************************************************)
EXTENDS Integers, Sequences, FiniteSets, TLC

(***************************************************************************)
(* Text.  A string is a sequence of one-character strings; a document's    *)
(* content is one such sequence with "\n" between its lines.               *)
(***************************************************************************)
UpperCase == <<"A","B","C","D","E","F","G","H","I","J","K","L","M",
               "N","O","P","Q","R","S","T","U","V","W","X","Y","Z">>
LowerCase == <<"a","b","c","d","e","f","g","h","i","j","k","l","m",
               "n","o","p","q","r","s","t","u","v","w","x","y","z">>
Digits == {"0","1","2","3","4","5","6","7","8","9"}
LowerSet == {LowerCase[k] : k \in 1..Len(LowerCase)}
UpperSet == {UpperCase[k] : k \in 1..Len(UpperCase)}

\* str.lower() on one character
Lower(c) ==
    IF c \in UpperSet
    THEN LowerCase[CHOOSE k \in 1..Len(UpperCase) : UpperCase[k] = c]
    ELSE c

\* re.sub(r'[^a-z0-9 ]',' ', s.lower())
ReplaceNonAlnum(s) ==
    [k \in 1..Len(s) |->
        LET c == Lower(s[k])
        IN  IF c \in LowerSet \cup Digits \cup {" "} THEN c ELSE " "]

\* re.sub(r'\s+',' ', s) on a string whose only whitespace is the space
RECURSIVE CollapseRange(_, _, _)
CollapseRange(s, lo, hi) ==
    IF lo > hi THEN <<>>
    ELSE IF lo = hi
    THEN IF s[lo] = " " /\ lo > 1 /\ s[lo-1] = " " THEN <<>> ELSE <<s[lo]>>
    ELSE LET mid == (lo + hi) \div 2
         IN  CollapseRange(s, lo, mid) \o CollapseRange(s, mid + 1, hi)

CollapseSpaces(s) == CollapseRange(s, 1, Len(s))

Whitespace == {" ", "\n", "\r", "\t", "\f"}

\* str.strip()
RECURSIVE LStrip(_)
LStrip(s) == IF s # <<>> /\ Head(s) \in Whitespace THEN LStrip(Tail(s)) ELSE s

RECURSIVE RStrip(_)
RStrip(s) ==
    IF s # <<>> /\ s[Len(s)] \in Whitespace THEN RStrip(SubSeq(s, 1, Len(s) - 1)) ELSE s

Strip(s) == RStrip(LStrip(s))

normalize(s) == Strip(CollapseSpaces(ReplaceNonAlnum(s)))

\* t.startswith(p)
StartsWith(t, p) == Len(t) >= Len(p) /\ SubSeq(t, 1, Len(p)) = p

\* p in t
Contains(t, p) ==
    \E k \in 0..(Len(t) - Len(p)) : SubSeq(t, k + 1, k + Len(p)) = p

ACTION_VERBS == << <<"c","r","e","a","t","e">>,
                   <<"i","m","p","l","e","m","e","n","t">>,
                   <<"o","p","e","n">>,
                   <<"c","o","n","t","a","c","t">>,
                   <<"d","r","a","f","t">>,
                   <<"r","e","q","u","e","s","t">>,
                   <<"s","c","h","e","d","u","l","e">>,
                   <<"s","e","t","u","p">>,
                   <<"c","o","n","f","i","g","u","r","e">>,
                   <<"t","e","s","t">>,
                   <<"v","e","r","i","f","y">>,
                   <<"f","o","l","l","o","w">> >>

is_actionable(title) ==
    LET t == normalize(title)
    IN  \E n \in 1..Len(ACTION_VERBS) :
            LET v == ACTION_VERBS[n]
            IN  \/ StartsWith(t, v \o <<" ">>)
                \/ Contains(<<" ">> \o t \o <<" ">>, <<" ">> \o v \o <<" ">>)

(***************************************************************************)
(* difflib.SequenceMatcher(None, a, b).ratio(), kept as the exact fraction *)
(* 2*matches / (len(a)+len(b)).  No junk is configured, and the automatic  *)
(* junk heuristic needs len(b) >= 200, beyond every line of the model.     *)
(***************************************************************************)
RECURSIVE CommonLen(_, _, _, _, _, _)
CommonLen(a, b, i, j, ahi, bhi) ==
    IF i > ahi \/ j > bhi THEN 0
    ELSE IF a[i] # b[j] THEN 0
    ELSE 1 + CommonLen(a, b, i + 1, j + 1, ahi, bhi)

\* block p = <<i, j>> of length L[p] is found before block q by the scan:
\* longer, or as long and starting earlier in a, or in b
Preferred(L, p, q) ==
    \/ L[p] > L[q]
    \/ /\ L[p] = L[q]
       /\ \/ p[1] < q[1]
          \/ p[1] = q[1] /\ p[2] <= q[2]

\* L: the length of the common run starting at each pair of equal elements
LongestOf(L, alo, blo) ==
    IF DOMAIN L = {} THEN <<alo, blo, 0>>
    ELSE LET p == CHOOSE p \in DOMAIN L : \A q \in DOMAIN L : Preferred(L, p, q)
         IN  <<p[1], p[2], L[p]>>

\* <<i, j, k>>: the longest block a[i..i+k-1] = b[j..j+k-1] inside
\* a[alo..ahi], b[blo..bhi]; of the longest the one starting earliest in a,
\* and of those the one starting earliest in b.  k = 0 when nothing matches.
find_longest_match(a, b, alo, ahi, blo, bhi) ==
    LongestOf([p \in {q \in (alo..ahi) \X (blo..bhi) : a[q[1]] = b[q[2]]} |->
                    CommonLen(a, b, p[1], p[2], ahi, bhi)],
              alo, blo)

\* sum of the sizes of get_matching_blocks()
RECURSIVE matching_size(_, _, _, _, _, _)
RECURSIVE BlockAndRest(_, _, _, _, _, _, _)
matching_size(a, b, alo, ahi, blo, bhi) ==
    IF alo > ahi \/ blo > bhi THEN 0
    ELSE BlockAndRest(a, b, alo, ahi, blo, bhi,
                      find_longest_match(a, b, alo, ahi, blo, bhi))

\* the block m, then the blocks to its left and to its right
BlockAndRest(a, b, alo, ahi, blo, bhi, m) ==
    IF m[3] = 0 THEN 0
    ELSE m[3] + matching_size(a, b, alo, m[1] - 1, blo, m[2] - 1)
              + matching_size(a, b, m[1] + m[3], ahi, m[2] + m[3], bhi)

\* ratio() as the pair <<numerator, denominator>>; two empty strings give 1.0
ratio(a, b) ==
    IF Len(a) + Len(b) = 0 THEN <<1, 1>>
    ELSE <<2 * matching_size(a, b, 1, Len(a), 1, Len(b)), Len(a) + Len(b)>>

(***************************************************************************)
(* Line formats.                                                           *)
(***************************************************************************)
CheckboxPrefix == <<"-"," ","["," ","]">>
NotePrefix == <<" "," ",">"," ","<","!","-","-"," ","b","o","t",":"," ","n","o","t","e"," ","-","-",">"," ">>
SubtaskPrefix == <<"<","!","-","-"," ","b","o","t",":"," ","s","u","b","t","a","s","k"," ">>
SubtaskSuffix == <<" ","-","-",">">>
LastReviewStart == <<"<","!","-","-"," ","b","o","t",":"," ","l","a","s","t","_","r","e","v","i","e","w">>
LastReviewPrefix == <<"<","!","-","-"," ","b","o","t",":"," ","l","a","s","t","_","r","e","v","i","e","w"," ","-","-",">"," ">>
LastReviewModel == <<"Z"," ","m","o","d","e","l","=","g","p","t","-","5","-","m","i","n","i"," ","h","a","s","h","=">>
JsonId == <<"{","\"","i","d","\"",":"," ","\"">>
JsonOriginalLine == <<"\"",","," ","\"","o","r","i","g","i","n","a","l","_","l","i","n","e","\"",":"," ","\"">>
JsonTitle == <<"\"",","," ","\"","t","i","t","l","e","\"",":"," ","\"">>
JsonCreatedAt == <<"\"",","," ","\"","e","s","t","i","m","a","t","e","_","h","o","u","r","s","\"",":"," ","n","u","l","l",","," ","\"","a","s","s","i","g","n","e","e","\"",":"," ","n","u","l","l",","," ","\"","c","r","e","a","t","e","d","A","t","U","t","c","\"",":"," ","\"">>
JsonSourceModel == <<"\"",","," ","\"","s","o","u","r","c","e","_","m","o","d","e","l","\"",":"," ","\"">>
JsonStatus == <<"\"",","," ","\"","s","t","a","t","u","s","\"",":"," ","\"","s","u","g","g","e","s","t","e","d","\"","}">>
IdPrefix == <<"s","u","b",":">>

\* sugg.get('schema','gpt-5-mini') and sugg.get("generatedAtUtc",""): the
\* batch file carries neither key at its top level, so both are the defaults
SourceModel == <<"g","p","t","-","5","-","m","i","n","i">>
GeneratedAtUtc == <<>>

(***************************************************************************)
(* Bounds and input pools.                                                 *)
(***************************************************************************)
MaxItems == 3
MaxRuns == 2

Str_ab == <<"a","b">>
Str_cd == <<"c","d">>

\* {original, suggested_text} entries of the batch file
SuggPool ==
    { [original |-> Str_ab,
       suggested_text |-> CheckboxPrefix \o <<" ","t","e","s","t"," ","a">>],
      [original |-> Str_ab,
       suggested_text |-> CheckboxPrefix \o <<" ","o","p","e","n"," ","x">>],
      [original |-> <<"b"," ","c">>,
       suggested_text |-> CheckboxPrefix \o <<" ","T","e","s","t"," ","y","!","\n","m","o","r","e">>],
      [original |-> <<"A","b","!">>,
       suggested_text |-> <<"a">>] }

\* --threshold, in hundredths (0.85 is THRESHOLD, the default)
THRESHOLD == 85
Thresholds == {THRESHOLD, 25}

DigitChar == <<"0","1","2","3","4","5","6","7","8","9">>

\* uuid.uuid4().hex[:8]: a value no earlier call returned; the n-th
\* insertion of run r draws the digits of r and n
uuid4_hex8(r, n) == <<"0","0","0","0","0","0">> \o <<DigitChar[r + 1], DigitChar[n + 1]>>

\* datetime.datetime.utcnow().isoformat() during run r
utcnow(r) ==
    <<"2","0","2","6","-","0","1","-","0","1","T","0","0",":","0","0",":","0">>
        \o <<DigitChar[r + 1]>>

(***************************************************************************)
(* Rendering of the inserted lines.                                        *)
(***************************************************************************)
JsonEscape(c) ==
    CASE c = "\"" -> <<"\\", "\"">>
      [] c = "\\" -> <<"\\", "\\">>
      [] c = "\n" -> <<"\\", "n">>
      [] c = "\r" -> <<"\\", "r">>
      [] c = "\t" -> <<"\\", "t">>
      [] OTHER -> <<c>>

\* the body of json.dumps(s, ensure_ascii=False) for a string s
RECURSIVE JsonChars(_)
JsonChars(s) == IF s = <<>> THEN <<>> ELSE JsonEscape(Head(s)) \o JsonChars(Tail(s))

human_note(title) == NotePrefix \o title

machine_comment(id, orig, title, now) ==
    SubtaskPrefix
        \o JsonId \o IdPrefix \o id
        \o JsonOriginalLine \o JsonChars(orig)
        \o JsonTitle \o JsonChars(title)
        \o JsonCreatedAt \o now \o <<"Z">>
        \o JsonSourceModel \o JsonChars(SourceModel)
        \o JsonStatus
        \o SubtaskSuffix

last_line(now) == LastReviewPrefix \o now \o LastReviewModel \o GeneratedAtUtc

(***************************************************************************)
(* Documents: content <-> lines.                                           *)
(***************************************************************************)
LineBreaks == {"\n", "\r", "\f"}

\* '\n'.join(ls)
RECURSIVE Join(_)
Join(ls) ==
    IF ls = <<>> THEN <<>>
    ELSE IF Len(ls) = 1 THEN ls[1]
    ELSE ls[1] \o <<"\n">> \o Join(Tail(ls))

\* the positions where a line boundary starts ("\r\n" is one boundary)
BreakStarts(c) ==
    {k \in 1..Len(c) :
        /\ c[k] \in LineBreaks
        /\ ~(c[k] = "\n" /\ k > 1 /\ c[k-1] = "\r")}

BreakEnd(c, k) == IF c[k] = "\r" /\ k < Len(c) /\ c[k+1] = "\n" THEN k + 1 ELSE k

RECURSIVE SplitFrom(_, _, _)
RECURSIVE SplitAt(_, _, _, _)
SplitFrom(c, from, starts) ==
    IF starts = {}
    THEN IF from > Len(c) THEN <<>> ELSE <<SubSeq(c, from, Len(c))>>
    ELSE SplitAt(c, from, starts, CHOOSE x \in starts : \A y \in starts : x <= y)

\* the line that ends at the boundary starting at k, then the rest
SplitAt(c, from, starts, k) ==
    <<SubSeq(c, from, k - 1)>> \o SplitFrom(c, BreakEnd(c, k) + 1, starts \ {k})

\* content.splitlines()
splitlines(c) == SplitFrom(c, 1, BreakStarts(c))

\* '\n'.join(new_lines)+('\n' if content.endswith('\n') else '')
new_content(nl, c) ==
    Join(nl) \o (IF c # <<>> /\ c[Len(c)] = "\n" THEN <<"\n">> ELSE <<>>)

Max(a, b) == IF a >= b THEN a ELSE b
Min(a, b) == IF a <= b THEN a ELSE b

\* list.insert(i, x), i a 0-based position
ListInsert(s, i, x) ==
    SubSeq(s, 1, Min(i, Len(s))) \o <<x>> \o SubSeq(s, Min(i, Len(s)) + 1, Len(s))

\* s[lo:hi], 0-based and half open
Slice(s, lo, hi) == SubSeq(s, lo + 1, hi)

(***************************************************************************)
(* The filter (lines 88-99).                                               *)
(***************************************************************************)
\* re.sub(r'^\- \[ \]\s*','', suggested)
StripCheckbox(s) ==
    IF StartsWith(s, CheckboxPrefix)
    THEN LStrip(SubSeq(s, Len(CheckboxPrefix) + 1, Len(s)))
    ELSE s

\* .split('\n')[0]
UpTo(s, nl) ==
    IF nl = {} THEN s
    ELSE SubSeq(s, 1, (CHOOSE k \in nl : \A j \in nl : k <= j) - 1)

FirstLine(s) == UpTo(s, {k \in 1..Len(s) : s[k] = "\n"})

Title(it) == FirstLine(StripCheckbox(it.suggested_text))

\* sim >= threshold, for sim = <<num, den>> and the threshold in hundredths
AtLeast(sim, hundredths) == 100 * sim[1] >= hundredths * sim[2]

\* the two tests of lines 95-98 in the other order
Decision_ActionableFirst(sim, th, actionable) ==
    IF ~actionable THEN "skip_not_actionable"
    ELSE IF AtLeast(sim, th) THEN "skip_similar"
    ELSE "insert"

Decision(sim, th, actionable) ==
    IF AtLeast(sim, th) THEN "skip_similar"
    ELSE IF ~actionable THEN "skip_not_actionable"
    ELSE "insert"

RecordOf(orig, title, sim, actionable, th) ==
    [original |-> orig, title |-> title, similarity |-> sim,
     actionable |-> actionable, decision |-> Decision(sim, th, actionable)]

RecordFor(orig, title, th) ==
    RecordOf(orig, title, ratio(normalize(orig), normalize(title)),
             is_actionable(title), th)

Record(it, th) == RecordFor(it.original, Title(it), th)

(***************************************************************************)
(* The line matcher (lines 103-109).                                       *)
(***************************************************************************)
\* a > b for two ratios
Greater(a, b) == a[1] * b[2] > b[1] * a[2]

\* the loop over enumerate(lines): <<best_idx, best_score>> after the first
\* n lines; best_idx is 0-based, -1 stands for None
\* line 106 with >= for >: the last of the best scoring lines wins
Better_LastWins(prev, n, score) ==
    IF ~Greater(prev[2], score) THEN <<n - 1, score>> ELSE prev

\* line 106 for a line with this score
Better(prev, n, score) == IF Greater(score, prev[2]) THEN <<n - 1, score>> ELSE prev

RECURSIVE BestAfter(_, _, _)
BestAfter(orig, ls, n) ==
    IF n = 0 THEN <<-1, <<0, 1>>>>
    ELSE Better(BestAfter(orig, ls, n - 1), n,
                ratio(normalize(orig), normalize(ls[n])))

BestMatch(orig, ls) == BestAfter(orig, ls, Len(ls))

\* best_idx is None or best_score < 0.2
NoMatch(best) == best[1] = -1 \/ 10 * best[2][1] < 2 * best[2][2]

(***************************************************************************)
(* The idempotence guard (lines 115-116).                                  *)
(***************************************************************************)
\* line 115 with a window that ends one line earlier
Window_ToIdxPlus1(nl, idx) == Slice(nl, Max(0, idx - 2), Min(Len(nl), idx + 2))

\* line 115 with a window that ends one line later
Window_ToIdxPlus3(nl, idx) == Slice(nl, Max(0, idx - 2), Min(Len(nl), idx + 4))

Window(nl, idx) == Slice(nl, Max(0, idx - 2), Min(Len(nl), idx + 3))

InWindow(joined, note, marker) ==
    Contains(joined, Strip(note)) \/ Contains(joined, marker)

AlreadyPresent(nl, idx, note, marker) ==
    InWindow(Join(Window(nl, idx)), note, marker)

(***************************************************************************)
(* Inputs.                                                                 *)
(***************************************************************************)
\* the sequences of up to n distinct elements of S
RECURSIVE SeqsUpTo(_, _)
SeqsUpTo(S, n) ==
    IF n = 0 THEN {<<>>}
    ELSE LET shorter == SeqsUpTo(S, n - 1)
             unused(s) == {y \in S : \A k \in 1..Len(s) : s[k] # y}
         IN  shorter \cup UNION {{Append(s, x) : x \in unused(s)} : s \in shorter}

\* the suggestions of the batch file: up to MaxItems pool entries, any order
Batches == SeqsUpTo(SuggPool, MaxItems)

\* contents of the remote document before the first run: empty; one task;
\* two tasks; the same task twice; an already reviewed document without a
\* final newline; a task whose note of an earlier review sits four lines
\* below it; tasks on lines 2 and 5 of six
Documents ==
    { <<>>,
      Join(<<Str_ab>>) \o <<"\n">>,
      Join(<<Str_cd, Str_ab>>) \o <<"\n">>,
      Join(<<Str_cd, Str_cd>>) \o <<"\n">>,
      Join(<<last_line(utcnow(0)), Str_cd>>),
      Join(<<Str_ab, <<"-">>, <<"-">>, <<"-">>, human_note(<<"o","p","e","n"," ","x">>)>>),
      Join(<<<<"-">>, <<"-">>, Str_cd, <<"-">>, <<"-">>, Str_ab>>) \o <<"\n">> }

(***************************************************************************)
(* State.                                                                  *)
(***************************************************************************)
VARIABLES
    pc,          \* position of the running main()
    run,         \* number of the current invocation
    remote,      \* content of the remote document
    origin,      \* who wrote remote: the user, or a run (with its threshold)
    suggFile,    \* outputs/todolist-md/llm_suggestions_apply.json
    apply,       \* args.apply
    threshold,   \* args.threshold, in hundredths
    content,     \* the downloaded content
    lines,       \* content.splitlines()
    new_lines,   \* the working array
    offset,
    inserted,
    records,
    pos,         \* number of items the loop has taken
    backup,      \* <<content>> once this run wrote its backup file
    upload,      \* <<body>> once this run issued its upload request
    recordsFile, \* <<records>> once this run wrote its records file
    last,        \* what the loop did with the item it took last
    pairs        \* the <<note, marker>> pairs this run has inserted

vars == <<pc, run, remote, origin, suggFile, apply, threshold, content, lines,
          new_lines, offset, inserted, records, pos, backup, upload,
          recordsFile, last, pairs>>

locals == <<content, lines, new_lines, offset, inserted, records, pos, last, pairs>>
files == <<backup, upload, recordsFile>>
env == <<remote, origin, suggFile>>

NoStep == [kind |-> "none", best_idx |-> -1, idx |-> -1, id |-> <<>>]

Init ==
    /\ pc = "start"
    /\ run = 1
    /\ remote \in Documents
    /\ origin = [bot |-> FALSE, threshold |-> 0]
    /\ suggFile \in {[exists |-> FALSE, items |-> <<>>]}
                        \cup {[exists |-> TRUE, items |-> b] : b \in Batches}
    /\ apply = FALSE
    /\ threshold = THRESHOLD
    /\ content = <<>>
    /\ lines = <<>>
    /\ new_lines = <<>>
    /\ offset = 0
    /\ inserted = 0
    /\ records = <<>>
    /\ pos = 0
    /\ backup = <<>>
    /\ upload = <<>>
    /\ recordsFile = <<>>
    /\ last = NoStep
    /\ pairs = <<>>

items == suggFile.items

(***************************************************************************)
(* main(), step by step.                                                   *)
(***************************************************************************)
\* lines 50-54
ParseArgs ==
    /\ pc = "start"
    /\ apply' \in BOOLEAN
    /\ threshold' \in Thresholds
    /\ pc' = "load"
    /\ UNCHANGED <<run, env, locals, files>>

\* lines 57-58
NoSuggestionsFile ==
    /\ pc = "load"
    /\ ~suggFile.exists
    /\ pc' = "exit"
    /\ UNCHANGED <<run, env, apply, threshold, locals, files>>

\* lines 59-61
LoadSuggestions ==
    /\ pc = "load"
    /\ suggFile.exists
    /\ pc' = "token"
    /\ UNCHANGED <<run, env, apply, threshold, locals, files>>

\* line 63
GetAccessToken ==
    /\ pc = "token"
    /\ pc' = "download"
    /\ UNCHANGED <<run, env, apply, threshold, locals, files>>

\* lines 64-75: the metadata fetch, then the download
Download ==
    /\ pc = "download"
    /\ content' = remote
    /\ lines' = splitlines(remote)
    /\ pc' = "backup"
    /\ UNCHANGED <<run, env, apply, threshold, new_lines, offset, inserted,
                   records, pos, last, pairs, files>>

\* urlopen raises in get_access_token, the metadata fetch or the download
RequestFails ==
    /\ pc \in {"token", "download"}
    /\ pc' = "failed"
    /\ UNCHANGED <<run, env, apply, threshold, locals, files>>

\* lines 77-86
WriteBackup ==
    /\ pc = "backup"
    /\ backup' = <<content>>
    /\ new_lines' = lines
    /\ offset' = 0
    /\ inserted' = 0
    /\ records' = <<>>
    /\ pos' = 0
    /\ pc' = "loop"
    /\ UNCHANGED <<run, env, apply, threshold, content, lines, last, pairs,
                   upload, recordsFile>>

\* line 99 moved below the continue of line 101
Recorded_InsertOnly(recs, rec) ==
    IF rec.decision = "insert" THEN Append(recs, rec) ELSE recs

\* line 99
Recorded(recs, rec) == Append(recs, rec)

\* the end of one pass of the loop body: the record of line 99 and, for
\* kind "insert", lines 118-121
EndPass(rec, kind, best_idx, idx, id, note, marker) ==
    /\ records' = Recorded(records, rec)
    /\ pos' = pos + 1
    /\ IF kind = "insert"
       THEN /\ new_lines' = ListInsert(ListInsert(new_lines, idx, note), idx + 1, marker)
            /\ offset' = offset + 2
            /\ inserted' = inserted + 1
            /\ pairs' = Append(pairs, <<note, marker>>)
       ELSE UNCHANGED <<new_lines, offset, inserted, pairs>>
    /\ last' = [kind |-> kind, best_idx |-> best_idx, idx |-> idx, id |-> id]

\* line 114 without the offset
InsertionPoint_NoOffset(best_idx, off) == best_idx + 1

\* line 114
InsertionPoint(best_idx, off) == best_idx + 1 + off

\* lines 115-121
InsertAt(rec, best_idx, idx, id, note, marker) ==
    IF AlreadyPresent(new_lines, idx, note, marker)
    THEN EndPass(rec, "guard", best_idx, idx, id, note, marker)
    ELSE EndPass(rec, "insert", best_idx, idx, id, note, marker)

\* lines 108-113
Place(rec, best, id) ==
    IF NoMatch(best)
    THEN EndPass(rec, "drop", best[1], -1, <<>>, <<>>, <<>>)
    ELSE InsertAt(rec, best[1], InsertionPoint(best[1], offset), id,
                  human_note(rec.title),
                  machine_comment(id, rec.original, rec.title, utcnow(run)))

\* lines 99-107
Filtered(rec) ==
    IF rec.decision # "insert"
    THEN EndPass(rec, "skip", -1, -1, <<>>, <<>>, <<>>)
    ELSE Place(rec, BestMatch(rec.original, lines), uuid4_hex8(run, inserted))

\* lines 87-121: one pass of the loop body
ProcessSuggestion ==
    /\ pc = "loop"
    /\ pos < Len(items)
    /\ Filtered(Record(items[pos + 1], threshold))
    /\ UNCHANGED <<pc, run, env, apply, threshold, content, lines, files>>

\* lines 125-128 without the test for an existing header
WithLastReview_AlwaysInserts(nl, header) == ListInsert(nl, 0, header)

\* line 131 without the test of args.apply
AfterReview_AlwaysUploads(a) == "upload"

\* lines 125-128
WithLastReview(nl, header) ==
    IF nl # <<>> /\ StartsWith(nl[1], LastReviewStart)
    THEN [nl EXCEPT ![1] = header]
    ELSE ListInsert(nl, 0, header)

\* line 131
AfterReview(a) == IF a THEN "upload" ELSE "records"

\* lines 124-130 once the loop is over, then the branch of line 131 (a dry
\* run only prints)
UpdateLastReview ==
    /\ pc = "loop"
    /\ pos = Len(items)
    /\ new_lines' = WithLastReview(new_lines, last_line(utcnow(run)))
    /\ pc' = AfterReview(apply)
    /\ UNCHANGED <<run, env, apply, threshold, content, lines, offset,
                   inserted, records, pos, last, pairs, files>>

\* lines 132-137: the PATCH request is answered
Upload ==
    /\ pc = "upload"
    /\ upload' = <<new_content(new_lines, content)>>
    /\ remote' = new_content(new_lines, content)
    /\ origin' = [bot |-> TRUE, threshold |-> threshold]
    /\ pc' = "records"
    /\ UNCHANGED <<run, suggFile, apply, threshold, locals, backup, recordsFile>>

\* lines 132-135: the PATCH request is sent and urlopen raises
UploadFails ==
    /\ pc = "upload"
    /\ upload' = <<new_content(new_lines, content)>>
    /\ pc' = "failed"
    /\ UNCHANGED <<run, env, apply, threshold, locals, backup, recordsFile>>

\* lines 141-144
WriteRecords ==
    /\ pc = "records"
    /\ recordsFile' = <<records>>
    /\ pc' = "done"
    /\ UNCHANGED <<run, env, apply, threshold, locals, backup, upload>>

\* the process has ended; the tool is invoked again
NextRun ==
    /\ pc \in {"done", "failed", "exit"}
    /\ run < MaxRuns
    /\ run' = run + 1
    /\ pc' = "start"
    /\ content' = <<>>
    /\ lines' = <<>>
    /\ new_lines' = <<>>
    /\ offset' = 0
    /\ inserted' = 0
    /\ records' = <<>>
    /\ pos' = 0
    /\ backup' = <<>>
    /\ upload' = <<>>
    /\ recordsFile' = <<>>
    /\ last' = NoStep
    /\ pairs' = <<>>
    /\ apply' = FALSE
    /\ threshold' = THRESHOLD
    /\ UNCHANGED env

Next ==
    \/ ParseArgs
    \/ NoSuggestionsFile
    \/ LoadSuggestions
    \/ GetAccessToken
    \/ Download
    \/ RequestFails
    \/ WriteBackup
    \/ ProcessSuggestion
    \/ UpdateLastReview
    \/ Upload
    \/ UploadFails
    \/ WriteRecords
    \/ NextRun

Spec == Init /\ [][Next]_vars


(***************************************************************************)
(* Properties.  Positions are the 0-based positions of the code.           *)
(***************************************************************************)
At(s, i) == s[i + 1]

\* the loop has just finished a pass
Passed == pc = "loop" /\ pos > 0

\* the step that takes one suggestion through the loop body
Pass == pc = "loop" /\ pc' = "loop" /\ pos' = pos + 1

\* the working array before the pass that `last` describes
Before ==
    IF last.kind = "insert"
    THEN SubSeq(new_lines, 1, last.idx) \o SubSeq(new_lines, last.idx + 3, Len(new_lines))
    ELSE new_lines

IsLastReview(line) == StartsWith(line, LastReviewStart)

LastReviewCount(ls) == Cardinality({k \in 1..Len(ls) : IsLastReview(ls[k])})

NoteCount(ls, title) == Cardinality({k \in 1..Len(ls) : ls[k] = human_note(title)})

\* this run works on the document an earlier run of the same batch, with
\* the same threshold, uploaded
Rerun == pc = "loop" /\ origin.bot /\ origin.threshold = threshold

\* a line at one of the positions lo..hi of nl holds the text
TextAt(nl, lo, hi, text) ==
    \E p \in lo..hi : p >= 0 /\ p < Len(nl) /\ Contains(At(nl, p), text)

Score(orig, line) == ratio(normalize(orig), normalize(line))

\* C1 (as stated): a run on the document of an earlier run of the same
\* batch leaves, for every suggestion, the number of note lines with its
\* title as it was.
C1_RerunAddsNoNote ==
    Rerun =>
        \A k \in 1..Len(records) :
            NoteCount(new_lines, records[k].title) = NoteCount(lines, records[k].title)

\* C1 (restated): in such a run a suggestion is inserted again only when no
\* line at positions idx-2..idx+2 around its insertion point holds its note.
C1_RerunSkipsNoteInWindow ==
    (Rerun /\ last.kind = "insert") =>
        ~TextAt(Before, last.idx - 2, last.idx + 2,
                Strip(human_note(records[pos].title)))

C1_Witness ==
    /\ Rerun
    /\ pos = Len(items)
    /\ pos >= 2
    /\ inserted = 0
    /\ last.kind = "guard"
    /\ NoteCount(lines, records[pos].title) = 1

\* C2 (as stated): at every insertion the line just above the insertion
\* point is the matched line of the downloaded document.
C2_InsertedBelowMatch ==
    (Passed /\ last.kind = "insert") =>
        At(new_lines, last.idx - 1) = At(lines, last.best_idx)

\* C3: the decision of every record is skip_similar when the similarity
\* reaches the threshold, else skip_not_actionable when the title is not
\* actionable, else insert.
C3_Decision ==
    \A k \in 1..Len(records) :
        LET r == records[k]
        IN  /\ r.decision \in {"insert", "skip_similar", "skip_not_actionable"}
            /\ (r.decision = "skip_similar") <=>
                    (100 * r.similarity[1] >= threshold * r.similarity[2])
            /\ (r.decision = "skip_not_actionable") <=>
                    (100 * r.similarity[1] < threshold * r.similarity[2] /\ ~r.actionable)
            /\ (r.decision = "insert") <=>
                    (100 * r.similarity[1] < threshold * r.similarity[2] /\ r.actionable)

C3_Witness ==
    \E k \in 1..Len(records) :
        /\ 100 * records[k].similarity[1] = threshold * records[k].similarity[2]
        /\ records[k].actionable
        /\ records[k].decision = "skip_similar"

\* C4: insertions stay below line 0; the header step puts a last_review
\* line on line 0, replacing the one that is there or adding one line; the
\* uploaded document starts with it.
C4_Header ==
    /\ (pc = "loop" /\ lines # <<>>) =>
            /\ new_lines[1] = lines[1]
            /\ LastReviewCount(new_lines) = LastReviewCount(lines)
    /\ (Passed /\ last.kind = "insert") => last.idx >= 1
    /\ pc \in {"upload", "records", "done"} =>
            /\ new_lines[1] = last_line(utcnow(run))
            /\ IsLastReview(new_lines[1])
            /\ IF lines # <<>> /\ IsLastReview(lines[1])
               THEN /\ Len(new_lines) = Len(lines) + offset
                    /\ LastReviewCount(new_lines) = LastReviewCount(lines)
               ELSE /\ Len(new_lines) = Len(lines) + offset + 1
                    /\ LastReviewCount(new_lines) = LastReviewCount(lines) + 1
    /\ origin.bot =>
            /\ splitlines(remote) # <<>>
            /\ IsLastReview(splitlines(remote)[1])
            /\ LastReviewCount(splitlines(remote)) = 1

C4_Witness ==
    /\ pc = "done"
    /\ run = 2
    /\ apply
    /\ origin.bot
    /\ lines # <<>>
    /\ IsLastReview(lines[1])
    /\ inserted > 0
    /\ Len(new_lines) = Len(lines) + 2 * inserted

\* C5: an upload request is issued only with --apply and after the backup
\* of the downloaded content was written; when it fails the backup is there.
C5_UploadAfterBackup ==
    /\ ~apply => upload = <<>> /\ pc # "upload"
    /\ (upload # <<>> \/ pc = "upload") => backup = <<content>>
    /\ (pc = "failed" /\ upload # <<>>) => backup = <<remote>>

C5_Witness ==
    /\ pc = "failed"
    /\ upload # <<>>
    /\ inserted > 0
    /\ backup = <<remote>>

\* C6 (as stated): every run that got past the download ends with the
\* records of all suggestions persisted.
C6_RecordsAlwaysPersisted ==
    (pc \in {"done", "failed"} /\ backup # <<>>) =>
        /\ Len(records) = Len(items)
        /\ recordsFile = <<records>>

\* C6 (restated): the loop records every suggestion once, in input order;
\* a run that ends normally has persisted all of them, a run whose upload
\* failed has persisted none.
C6_Records ==
    /\ pc = "loop" => Len(records) = pos
    /\ pc \in {"upload", "records", "done"} => Len(records) = Len(items)
    /\ \A k \in 1..Len(records) :
            /\ records[k].original = items[k].original
            /\ records[k].title = Title(items[k])
    /\ pc = "done" => recordsFile = <<records>>
    /\ pc # "done" => recordsFile = <<>>

C6_Witness ==
    /\ pc = "done"
    /\ apply
    /\ Len(records) = 3
    /\ recordsFile = <<records>>
    /\ records[1].decision = "skip_not_actionable"
    /\ records[2].decision = "insert"
    /\ records[3].decision = "insert"
    /\ inserted = 1

\* the insertion point and the offset of one pass
OffsetKept(kind, best_idx, idx) ==
    /\ kind \in {"guard", "insert"} =>
            /\ idx = best_idx + 1 + offset
            /\ idx \in 1..Len(new_lines)
    /\ kind = "insert" =>
            /\ offset' = offset + 2
            /\ inserted' = inserted + 1
            /\ Len(new_lines') = Len(new_lines) + 2
            /\ At(new_lines', idx) = human_note(records'[pos'].title)
            /\ StartsWith(At(new_lines', idx + 1), SubtaskPrefix)
    /\ kind # "insert" => UNCHANGED <<offset, inserted, new_lines>>
    /\ Len(new_lines') = Len(lines') + offset'
    /\ offset' = 2 * inserted'

\* C7: the loop starts with offset 0; a pass inserts at best_idx+1+offset,
\* inside the working array, and adds 2 to the offset; every other pass
\* leaves offset and array alone; the array is offset longer than the
\* downloaded lines and offset is twice the inserted count.
C7_Offset ==
    [][/\ (pc = "backup" /\ pc' = "loop") => (offset' = 0 /\ new_lines' = lines')
       /\ Pass => OffsetKept(last'.kind, last'.best_idx, last'.idx)]_vars

C7_Witness ==
    /\ Passed
    /\ last.kind = "insert"
    /\ last.best_idx = 5
    /\ last.idx = 8
    /\ offset = 4
    /\ At(new_lines, 3) = pairs[1][1]
    /\ At(new_lines, 8) = pairs[2][1]

\* the scores of the downloaded lines against orig
Scores(orig) == [k \in 1..Len(lines) |-> Score(orig, lines[k])]

\* b is the first of the best scoring lines
FirstBest(sc, b) ==
    /\ b \in DOMAIN sc
    /\ \A k \in DOMAIN sc :
            /\ k < b => sc[k][1] * sc[b][2] < sc[b][1] * sc[k][2]
            /\ k > b => sc[k][1] * sc[b][2] <= sc[b][1] * sc[k][2]

\* no line scores 0.2 or more
NoneAdequate(sc) == \A k \in DOMAIN sc : 10 * sc[k][1] < 2 * sc[k][2]

MatchedOrDropped(sc, kind, best_idx) ==
    IF NoneAdequate(sc)
    THEN kind = "drop" /\ UNCHANGED <<new_lines, offset, inserted>>
    ELSE kind \in {"guard", "insert"} /\ FirstBest(sc, best_idx + 1)

\* C8: a suggestion with decision insert is matched to the first of the
\* best scoring lines of the downloaded document; when no line scores 0.2
\* or more it is dropped, and array, offset and count stay as they were.
C8_BestMatch ==
    [][(Pass /\ records'[pos'].decision = "insert") =>
            MatchedOrDropped(Scores(records'[pos'].original), last'.kind, last'.best_idx)]_vars

C8_Witness ==
    /\ Passed
    /\ last.kind = "drop"
    /\ last.best_idx >= 0
    /\ records[pos].decision = "insert"
    /\ inserted > 0

\* the guard of one pass, looking at positions idx-2..idx+reach
Guarded(kind, idx, reach, note, marker) ==
    IF TextAt(new_lines, idx - 2, idx + reach, Strip(note))
          \/ TextAt(new_lines, idx - 2, idx + reach, marker)
    THEN kind = "guard" /\ UNCHANGED <<new_lines, offset>>
    ELSE /\ kind = "insert"
         /\ new_lines' = SubSeq(new_lines, 1, idx) \o <<note, marker>>
                            \o SubSeq(new_lines, idx + 1, Len(new_lines))

GuardedPass(reach) ==
    (Pass /\ last'.kind \in {"guard", "insert"}) =>
        Guarded(last'.kind, last'.idx, reach,
                human_note(records'[pos'].title),
                machine_comment(last'.id, records'[pos'].original,
                                records'[pos'].title, utcnow(run)))

\* C9 (as stated): the suggestion is skipped exactly when its note or its
\* marker is on a line at positions idx-2..idx+3 of the working array.
C9_WindowToIdxPlus3 == [][GuardedPass(3)]_vars

\* C9 (restated): the suggestion is skipped, array and offset unchanged,
\* exactly when its note or its marker is on a line at positions
\* idx-2..idx+2 of the working array, and is inserted otherwise.
C9_WindowToIdxPlus2 == [][GuardedPass(2)]_vars

C9_Witness ==
    /\ Passed
    /\ last.kind = "guard"
    /\ last.idx + 2 < Len(new_lines)
    /\ Contains(At(new_lines, last.idx + 2), Strip(human_note(records[pos].title)))
    /\ ~TextAt(new_lines, last.idx - 2, last.idx + 1, Strip(human_note(records[pos].title)))

\* C10 (as stated): at the end of a run every marker the run inserted
\* stands right below the note inserted with it.
C10_MarkerBelowNote ==
    pc \in {"upload", "records", "done"} =>
        \A n \in 1..Len(pairs) :
            \A k \in 1..Len(new_lines) :
                new_lines[k] = pairs[n][2] => (k > 1 /\ new_lines[k-1] = pairs[n][1])

====
